---- MODULE Spec2Model ----
(***************************************************************************)
(* Model of the fastapi_mongo scaffold: the database client lifecycle      *)
(* (core/services/db_service.py) and the logging subsystem                 *)
(* (core/services/logger_service.py): the per-name AsyncLogger registry,   *)
(* the leveled logging facade and the request_logger middleware.           *)
(*                                                                         *)
(* Optional values (Python None or a value) are sequences: <<>> is None     *)
(* and <<v>> is the value v.                                                *)
(***************************************************************************)
EXTENDS Integers, Sequences, FiniteSets, TLC

VARIABLES
    db_client,      \* db_service.db_client: <<>> (None) or <<client id>>
    created,        \* number of AsyncIOMotorClient objects constructed so far
    live,           \* client ids constructed and not yet closed
    dbLog,          \* history of the calls made, one DbCall entry per call
    LOGGING_LEVEL,  \* settings.LOGGING_LEVEL, a level name
    loggerLevel,    \* logging.Logger.level per logger name (0 is NOTSET)
    handlers,       \* logging.Logger.handlers per logger name, in attachment order
    instances,      \* AsyncLogger._instances: logger name -> instance id (0: absent)
    constructed,    \* number of AsyncLogger objects built per logger name
    lock,           \* AsyncLogger._lock: 0 (free) or the caller thread holding it
    cpc,            \* caller thread: position inside AsyncLogger.__new__
    cname,          \* caller thread: the logger_name argument
    cinst,          \* caller thread: the local `instance` being initialised
    cret,           \* caller thread: the instance id returned (0: none yet)
    mpc,            \* event-loop thread: position inside request_logger's sink set-up
    rpc,            \* request: position inside request_logger
    rhdr,           \* request: the X-Request-ID header, <<>> when not sent
    rid,            \* request: the local variable request_id
    ctxReq,         \* request_id_var in the context of the request's task
    ctxDown,        \* request_id_var in the context of the downstream handler's task
    uuidCount,      \* number of uuid4() calls made so far
    trace,          \* request: history of its log lines and call/return events
    facadeRec,      \* request: fields of the last facade record emitted downstream
    lastCall        \* the last AsyncLogger facade call and what it delivered

dbVars == <<db_client, created, live, dbLog>>
logVars == <<LOGGING_LEVEL, loggerLevel, handlers>>
regVars == <<instances, constructed, lock, cpc, cname, cinst, cret, mpc>>
reqVars == <<rpc, rhdr, rid, ctxReq, ctxDown, uuidCount, trace, facadeRec>>
vars == <<dbVars, logVars, regVars, reqVars, lastCall>>

(***************************************************************************)
(* Bounds of the model.                                                    *)
(***************************************************************************)
MaxDbOps == 5
MaxCallers == 2
MaxRequests == 2

None == <<>>
Some(v) == <<v>>

(***************************************************************************)
(* Database Lifecycle Manager: core/services/db_service.py                 *)
(***************************************************************************)

\* `if db_client:` / `if not db_client:` -- None is falsy, a client object is truthy.
ClientTruthy(c) == c # None

\* One entry of the call history: the operation, db_client before and after it,
\* the number of clients it constructed and the value it returned.
DbCall(op, before, after, made, ret) ==
    [op |-> op, before |-> before, after |-> after, made |-> made, ret |-> ret]

InitDbCreatesAlways(c) == TRUE

\* init_db's guard `if not db_client:` (line 12).
InitDbCreates(c) == ~ClientTruthy(c)

\* async def init_db() (lines 9-14): constructs the client when none is held and
\* returns it; otherwise falls off the end and returns None.
init_db ==
    /\ Len(dbLog) < MaxDbOps
    /\ IF InitDbCreates(db_client)
       THEN /\ created' = created + 1
            /\ db_client' = Some(created + 1)
            /\ live' = live \cup {created + 1}
            /\ dbLog' = Append(dbLog, DbCall("init_db", db_client, Some(created + 1), 1,
                                             Some(created + 1)))
       ELSE /\ dbLog' = Append(dbLog, DbCall("init_db", db_client, db_client, 0, None))
            /\ UNCHANGED <<db_client, created, live>>
    /\ UNCHANGED <<logVars, regVars, reqVars, lastCall>>

\* async def close_db() (lines 17-22): closes and clears the client when one is held.
close_db ==
    /\ Len(dbLog) < MaxDbOps
    /\ IF ClientTruthy(db_client)
       THEN /\ live' = live \ {db_client[1]}
            /\ db_client' = None
       ELSE UNCHANGED <<db_client, live>>
    /\ dbLog' = Append(dbLog, DbCall("close_db", db_client, None, 0, None))
    /\ UNCHANGED <<created, logVars, regVars, reqVars, lastCall>>

\* async def db_status() (lines 25-30): True when a client is held, False otherwise.
db_status ==
    /\ Len(dbLog) < MaxDbOps
    /\ dbLog' = Append(dbLog, DbCall("db_status", db_client, db_client, 0,
                                     Some(ClientTruthy(db_client))))
    /\ UNCHANGED <<db_client, created, live, logVars, regVars, reqVars, lastCall>>

DbInit ==
    /\ db_client = None
    /\ created = 0
    /\ live = {}
    /\ dbLog = <<>>

(***************************************************************************)
(* The parts of Python's logging package the code relies on.               *)
(***************************************************************************)

\* Names given to AsyncLogger(...); "service" is the default argument.
Names == {"service", "service.db", "request_logger", "worker"}
LoggerNames == Names \cup {"root"}

\* The logger hierarchy: a dotted name is a child of its prefix.
Parent(n) == IF n = "service.db" THEN "service" ELSE "root"

LevelNames == {"NOTSET", "DEBUG", "INFO", "WARNING", "ERROR", "CRITICAL"}

\* getattr(logging, NAME): the numeric value of a level name.
LevelNo(name) ==
    CASE name = "NOTSET" -> 0
      [] name = "DEBUG" -> 10
      [] name = "INFO" -> 20
      [] name = "WARNING" -> 30
      [] name = "ERROR" -> 40
      [] name = "CRITICAL" -> 50

\* Logger.hasHandlers(): handlers on this logger or on any ancestor
\* (propagate is never switched off).
RECURSIVE HasHandlers(_, _)
HasHandlers(h, n) ==
    \/ Len(h[n]) > 0
    \/ n # "root" /\ HasHandlers(h, Parent(n))

\* Logger.getEffectiveLevel(): the first level that is not NOTSET up the hierarchy.
RECURSIVE EffectiveLevel(_, _)
EffectiveLevel(lv, n) ==
    IF lv[n] # 0 THEN lv[n]
    ELSE IF n = "root" THEN 0
    ELSE EffectiveLevel(lv, Parent(n))

\* Logger.callHandlers(): the handlers a record of logger n is handed to, as
\* <<owning logger, position>>, this logger's first and then each ancestor's.
RECURSIVE CallHandlers(_, _)
CallHandlers(h, n) ==
    [i \in 1..Len(h[n]) |-> <<n, i>>]
        \o (IF n = "root" THEN <<>> ELSE CallHandlers(h, Parent(n)))

\* Logger.debug/info/...: a record below the logger's effective level is dropped,
\* any other is handed once to each handler of CallHandlers.
Delivered(h, lv, n, levelno) ==
    IF levelno >= EffectiveLevel(lv, n) THEN CallHandlers(h, n) ELSE <<>>

\* The files (or console) the handlers of a delivery write to.
FilesOf(h, d) == [i \in 1..Len(d) |-> h[d[i][1]][d[i][2]].file]

(***************************************************************************)
(* Named Logger Registry: AsyncLogger.__new__ / _init_logger               *)
(***************************************************************************)

\* RotatingFileHandler(LOGS_DIR / "service_logs" / f"{logger_name}.log") with
\* CustomJsonFormatter (lines 127-134).
ServiceFileHandler(name) ==
    [cls |-> "RotatingFileHandler", file |-> <<"service_logs", name>>,
     fmt |-> "CustomJsonFormatter"]

\* logging.StreamHandler() with the plain formatter (lines 137-140).
ConsoleHandler ==
    [cls |-> "StreamHandler", file |-> <<"console">>, fmt |-> "Formatter"]

\* RotatingFileHandler(LOGS_DIR / "request_logs" / "request.log") with
\* jsonlogger.JsonFormatter (lines 28-35).
RequestFileHandler ==
    [cls |-> "RotatingFileHandler", file |-> <<"request_logs", "request">>,
     fmt |-> "JsonFormatter"]

\* `if not self.logger.hasHandlers():` (line 126).
NeedsHandlers(h, name) == ~HasHandlers(h, name)

\* `if not any(isinstance(h, RotatingFileHandler) for h in logger.handlers):` (line 27).
NeedsRequestSink(h) ==
    ~\E i \in 1..Len(h["request_logger"]) :
        h["request_logger"][i].cls = "RotatingFileHandler"

\* logger.setLevel(LOGGING_LEVEL) (lines 25 and 124).
SetLevel(lv, name) == [lv EXCEPT ![name] = LevelNo(LOGGING_LEVEL)]

\* The whole of _init_logger's handler set-up (lines 126-141).
InitLoggerHandlers(h, name) ==
    IF NeedsHandlers(h, name)
    THEN [h EXCEPT ![name] = @ \o <<ServiceFileHandler(name), ConsoleHandler>>]
    ELSE h

\* The middleware's sink set-up (lines 27-36).
EnsureRequestSink(h) ==
    IF NeedsRequestSink(h)
    THEN [h EXCEPT !["request_logger"] = Append(@, RequestFileHandler)]
    ELSE h

\* Number of handlers of class cls attached to logger n itself.
CountCls(h, n, cls) == Cardinality({i \in 1..Len(h[n]) : h[n][i].cls = cls})

\* The state once the module has been imported: settings are loaded, the root
\* logger is at WARNING without handlers, and `service_logger = AsyncLogger()`
\* (line 234) has built the "service" instance.
LogInit ==
    /\ LOGGING_LEVEL \in LevelNames
    /\ loggerLevel = [n \in LoggerNames |->
                        IF n = "root" THEN LevelNo("WARNING")
                        ELSE IF n = "service" THEN LevelNo(LOGGING_LEVEL) ELSE 0]
    /\ handlers = [n \in LoggerNames |->
                        IF n = "service"
                        THEN <<ServiceFileHandler("service"), ConsoleHandler>>
                        ELSE <<>>]
    /\ instances = [n \in Names |-> IF n = "service" THEN 1 ELSE 0]
    /\ constructed = [n \in Names |-> IF n = "service" THEN 1 ELSE 0]
    /\ lock = 0

Callers == 1..MaxCallers

RegInit ==
    /\ cpc = [c \in Callers |-> "idle"]
    /\ cname = [c \in Callers |-> "service"]
    /\ cinst = [c \in Callers |-> 0]
    /\ cret = [c \in Callers |-> 0]
    /\ mpc = "idle"

TotalConstructed == constructed["service"] + constructed["service.db"]
                      + constructed["request_logger"] + constructed["worker"]

\* A thread calls AsyncLogger(name).
Call(c, name) ==
    /\ cpc[c] = "idle"
    /\ cpc' = [cpc EXCEPT ![c] = "acquire"]
    /\ cname' = [cname EXCEPT ![c] = name]
    /\ UNCHANGED <<dbVars, logVars, instances, constructed, lock, cinst, cret, mpc,
                   reqVars, lastCall>>

\* `with cls._lock:` (line 103): blocks until the lock is free.
Acquire(c) ==
    /\ cpc[c] = "acquire"
    /\ lock = 0
    /\ lock' = c
    /\ cpc' = [cpc EXCEPT ![c] = "check"]
    /\ UNCHANGED <<dbVars, logVars, instances, constructed, cname, cinst, cret, mpc,
                   reqVars, lastCall>>

\* `if logger_name not in cls._instances:` (line 104).
Check(c) ==
    /\ cpc[c] = "check"
    /\ cpc' = [cpc EXCEPT ![c] = IF instances[cname[c]] = 0 THEN "new" ELSE "return"]
    /\ UNCHANGED <<dbVars, logVars, instances, constructed, lock, cname, cinst, cret,
                   mpc, reqVars, lastCall>>

\* `instance = super().__new__(cls)` (line 105).
New(c) ==
    /\ cpc[c] = "new"
    /\ constructed' = [constructed EXCEPT ![cname[c]] = @ + 1]
    /\ cinst' = [cinst EXCEPT ![c] = TotalConstructed + 1]
    /\ cpc' = [cpc EXCEPT ![c] = "getLogger"]
    /\ UNCHANGED <<dbVars, logVars, instances, lock, cname, cret, mpc, reqVars, lastCall>>

\* `self.logger = logging.getLogger(logger_name); self.logger.setLevel(LOGGING_LEVEL)`
\* (lines 123-124).
GetLogger(c) ==
    /\ cpc[c] = "getLogger"
    /\ loggerLevel' = SetLevel(loggerLevel, cname[c])
    /\ cpc' = [cpc EXCEPT ![c] = "hasHandlers"]
    /\ UNCHANGED <<dbVars, LOGGING_LEVEL, handlers, instances, constructed, lock, cname,
                   cinst, cret, mpc, reqVars, lastCall>>

\* `if not self.logger.hasHandlers():` (line 126).
HasHandlersTest(c) ==
    /\ cpc[c] = "hasHandlers"
    /\ cpc' = [cpc EXCEPT ![c] = IF NeedsHandlers(handlers, cname[c])
                                 THEN "addFile" ELSE "store"]
    /\ UNCHANGED <<dbVars, logVars, instances, constructed, lock, cname, cinst, cret,
                   mpc, reqVars, lastCall>>

\* `self.logger.addHandler(file_handler)` (lines 127-135).
AddFile(c) ==
    /\ cpc[c] = "addFile"
    /\ handlers' = [handlers EXCEPT ![cname[c]] = Append(@, ServiceFileHandler(cname[c]))]
    /\ cpc' = [cpc EXCEPT ![c] = "addStream"]
    /\ UNCHANGED <<dbVars, LOGGING_LEVEL, loggerLevel, instances, constructed, lock,
                   cname, cinst, cret, mpc, reqVars, lastCall>>

\* `self.logger.addHandler(stream_handler)` (lines 137-141).
AddStream(c) ==
    /\ cpc[c] = "addStream"
    /\ handlers' = [handlers EXCEPT ![cname[c]] = Append(@, ConsoleHandler)]
    /\ cpc' = [cpc EXCEPT ![c] = "store"]
    /\ UNCHANGED <<dbVars, LOGGING_LEVEL, loggerLevel, instances, constructed, lock,
                   cname, cinst, cret, mpc, reqVars, lastCall>>

\* `cls._instances[logger_name] = instance` (line 107).
Store(c) ==
    /\ cpc[c] = "store"
    /\ instances' = [instances EXCEPT ![cname[c]] = cinst[c]]
    /\ cpc' = [cpc EXCEPT ![c] = "return"]
    /\ UNCHANGED <<dbVars, logVars, constructed, lock, cname, cinst, cret, mpc,
                   reqVars, lastCall>>

\* `return cls._instances[logger_name]` (line 108), leaving the `with` block.
Return(c) ==
    /\ cpc[c] = "return"
    /\ cret' = [cret EXCEPT ![c] = instances[cname[c]]]
    /\ lock' = 0
    /\ cpc' = [cpc EXCEPT ![c] = "done"]
    /\ UNCHANGED <<dbVars, logVars, instances, constructed, cname, cinst, mpc,
                   reqVars, lastCall>>

\* The middleware, on the event-loop thread, reaches its sink test:
\* `logger = logging.getLogger("request_logger"); logger.setLevel(LOGGING_LEVEL)`
\* and the test of line 27.
MiddlewareTest ==
    /\ mpc = "idle"
    /\ loggerLevel' = SetLevel(loggerLevel, "request_logger")
    /\ mpc' = IF NeedsRequestSink(handlers) THEN "add" ELSE "idle"
    /\ UNCHANGED <<dbVars, LOGGING_LEVEL, handlers, instances, constructed, lock, cpc,
                   cname, cinst, cret, reqVars, lastCall>>

\* `logger.addHandler(file_handler)` (lines 28-36).
MiddlewareAdd ==
    /\ mpc = "add"
    /\ handlers' = [handlers EXCEPT !["request_logger"] = Append(@, RequestFileHandler)]
    /\ mpc' = "idle"
    /\ UNCHANGED <<dbVars, LOGGING_LEVEL, loggerLevel, instances, constructed, lock, cpc,
                   cname, cinst, cret, reqVars, lastCall>>

\* AsyncLogger(name) called where no other thread runs (from the event loop):
\* the whole of __new__, lines 103-108.
AsyncLoggerCall(name) ==
    /\ lock = 0
    /\ \A c \in Callers : cpc[c] \in {"idle", "done"}
    /\ mpc = "idle"
    /\ IF instances[name] = 0
       THEN /\ constructed' = [constructed EXCEPT ![name] = @ + 1]
            /\ loggerLevel' = SetLevel(loggerLevel, name)
            /\ handlers' = InitLoggerHandlers(handlers, name)
            /\ instances' = [instances EXCEPT ![name] = TotalConstructed + 1]
       ELSE UNCHANGED <<constructed, loggerLevel, handlers, instances>>
    /\ UNCHANGED <<dbVars, LOGGING_LEVEL, lock, cpc, cname, cinst, cret, mpc,
                   reqVars, lastCall>>

(***************************************************************************)
(* Correlation Context and Async Logging Facade                            *)
(***************************************************************************)

\* Python truthiness of an optional string: None and "" are falsy.
Truthy(v) == v # None /\ v[1] # ""

\* The exception being handled, as sys.exc_info() reports it: None, or the
\* exception's type and the text str() gives for it.
ActiveExceptions ==
    {None, Some([type |-> "ValueError", msg |-> ""]),
     Some([type |-> "ValueError", msg |-> "boom"])}

\* str(exception_value) (line 159).
StrOfValue(exc) == IF exc = None THEN "None" ELSE exc[1].msg

\* str(exception_type) (line 160).
StrOfType(exc) == IF exc = None THEN "None" ELSE "<class 'ValueError'>"

\* traceback.format_exc() (line 161).
FormatExc(exc) ==
    IF exc = None THEN "NoneType: None\n"
    ELSE "Traceback (most recent call last): ... ValueError"

\* The three keys set when exc_info is given (lines 157-161).
ExcFields(exc) ==
    ("exception" :> StrOfValue(exc)) @@ ("exception_type" :> StrOfType(exc))
        @@ ("traceback" :> FormatExc(exc))

NoFields == [k \in {} |-> ""]

\* `request_id = request_id_var.get(); if request_id: kwargs["request_id"] = ...`
\* (lines 152-154; CustomJsonFormatter.add_fields, lines 73-75, does the same).
RequestIdField(ctx) == IF Truthy(ctx) THEN ("request_id" :> ctx[1]) ELSE NoFields

\* The `extra` mapping _log hands to the logger: the caller's keyword arguments,
\* then request_id, then the exception keys, each overwriting what is there
\* (lines 152-161).
LogFields(kw, exc_info, exc, ctx) ==
    (IF exc_info THEN ExcFields(exc) ELSE NoFields) @@ RequestIdField(ctx) @@ kw

Ops == {"debug", "info", "warning", "error", "critical", "exception"}

\* The level each facade method passes to _log (lines 170-230).
OpLevel(op) ==
    CASE op = "debug" -> "DEBUG"
      [] op = "info" -> "INFO"
      [] op = "warning" -> "WARNING"
      [] op = "error" -> "ERROR"
      [] op = "critical" -> "CRITICAL"
      [] op = "exception" -> "ERROR"

\* Only exception() passes exc_info=True (line 230).
OpExcInfo(op) == op = "exception"

\* _should_log (lines 143-145).
ShouldLog(level) == LevelNo(level) >= LevelNo(LOGGING_LEVEL)

\* Logger.makeRecord() refuses an `extra` key that names an attribute of the record
\* ("Attempt to overwrite ... in LogRecord"): the call of line 167 then raises KeyError.
ReservedKeys ==
    {"name", "msg", "args", "levelname", "levelno", "pathname", "filename", "module",
     "exc_info", "exc_text", "stack_info", "lineno", "funcName", "created", "msecs",
     "relativeCreated", "thread", "threadName", "processName", "process", "message",
     "asctime"}

\* What one facade call on the logger `name` does, made with keyword arguments kw,
\* with `exc` being handled and `ctx` the value of request_id_var in the caller's
\* context (_log, lines 147-167).
FacadeCall(name, op, kw, exc, ctx) ==
    LET passed == ShouldLog(OpLevel(op))
        enabled == LevelNo(OpLevel(op)) >= EffectiveLevel(loggerLevel, name)
        fields == LogFields(kw, OpExcInfo(op), exc, ctx)
        raised == passed /\ enabled /\ DOMAIN fields \cap ReservedKeys # {}
    IN [logger |-> name, op |-> op, exc |-> exc, ctx |-> ctx, passed |-> passed,
        fields |-> IF passed THEN fields ELSE NoFields,
        raised |-> raised,
        delivered |-> IF passed /\ ~raised
                      THEN Delivered(handlers, loggerLevel, name, LevelNo(OpLevel(op)))
                      ELSE <<>>,
        emitted |-> passed /\ enabled /\ ~raised]

NoCall ==
    [logger |-> "root", op |-> "none", exc |-> None, ctx |-> None, passed |-> FALSE,
     fields |-> NoFields, raised |-> FALSE, delivered |-> <<>>, emitted |-> FALSE]

\* Values request_id_var holds in a caller's context: unset, or a request's id.
ContextValues == {None, Some("abc-123")}

\* Keyword arguments of a facade call: none, a plain field, a field named like an
\* attribute of the log record.
KwargChoices == {NoFields, "user_id" :> "42", "name" :> "bob"}

\* A facade call on a logger obtained from the registry; lastCall holds it until the
\* coroutine returns. The exception being handled is read by exception() alone, so
\* it is left unset for the other methods.
Facade(name, op, kw, exc, ctx) ==
    /\ lastCall = NoCall
    /\ instances[name] # 0
    /\ lastCall' = FacadeCall(name, op, kw, exc, ctx)
    /\ UNCHANGED <<dbVars, logVars, regVars, reqVars>>

\* The coroutine of the facade call returns to its caller.
FacadeReturn ==
    /\ lastCall # NoCall
    /\ lastCall' = NoCall
    /\ UNCHANGED <<dbVars, logVars, regVars, reqVars>>

\* The middleware's sink set-up when no other thread runs (lines 24-36).
MiddlewareSetup ==
    /\ mpc = "idle"
    /\ \A c \in Callers : cpc[c] \in {"idle", "done"}
    /\ loggerLevel' = SetLevel(loggerLevel, "request_logger")
    /\ handlers' = EnsureRequestSink(handlers)
    /\ UNCHANGED <<dbVars, LOGGING_LEVEL, regVars, reqVars, lastCall>>

(***************************************************************************)
(* Request Logging Middleware: request_logger (lines 22-62)                *)
(***************************************************************************)

Requests == 1..MaxRequests

\* The X-Request-ID header of a request: not sent, sent empty, sent with a value.
HeaderValues == {None, Some(""), Some("abc-123")}

\* str(uuid4()): the text of the n-th identifier drawn. Each draw is taken to differ
\* from every other draw and from every header value a client sends.
UuidStr(n) ==
    CASE n = 1 -> "uuid-1"
      [] n = 2 -> "uuid-2"
      [] n = 3 -> "uuid-3"
      [] n = 4 -> "uuid-4"
      [] n = 5 -> "uuid-5"
      [] OTHER -> "uuid-6"

RequestIdIgnoringHeader(hdr, fresh) == fresh

\* `request.headers.get("X-Request-ID", str(uuid4()))` (line 39).
RequestId(hdr, fresh) == IF hdr # None THEN hdr[1] ELSE fresh

\* A log line written by the middleware, or a call/return event, of request r.
Event(r, ev, id, files) == [req |-> r, ev |-> ev, id |-> id, files |-> files]

EnterEventsCallFirst(r, id, files) ==
    <<Event(r, "call", None, <<>>), Event(r, "received", Some(id), files)>>

\* Lines 42-52 in order: the "Received request" line, then `await call_next(request)`.
EnterEvents(r, id, files) ==
    <<Event(r, "received", Some(id), files), Event(r, "call", None, <<>>)>>

\* The request_id of the "Response sent" line: the local variable (line 57).
SentRequestId(r) == rid[r]

ReqInit ==
    /\ rpc = [r \in Requests |-> "idle"]
    /\ rhdr = [r \in Requests |-> None]
    /\ rid = [r \in Requests |-> None]
    /\ ctxReq = [r \in Requests |-> None]
    /\ ctxDown = [r \in Requests |-> None]
    /\ uuidCount = 0
    /\ trace = [r \in Requests |-> <<>>]
    /\ facadeRec = [r \in Requests |-> None]

\* A request enters the middleware and runs to its first suspension, the await of
\* call_next (lines 24-52). The server runs each request in a task of its own, whose
\* context starts as a copy of the server's, where request_id_var is unset; call_next
\* runs the downstream handler in a child task that copies the middleware's context.
\* Requests are numbered in the order they arrive.
Enter(r, hdr) ==
    /\ rpc[r] = "idle"
    /\ \A q \in Requests : q < r => rpc[q] # "idle"
    /\ \A c \in Callers : cpc[c] \in {"idle", "done"}
    /\ mpc = "idle"
    /\ LET lv == SetLevel(loggerLevel, "request_logger")
           h == EnsureRequestSink(handlers)
           id == RequestId(hdr, UuidStr(uuidCount + 1))
           files == FilesOf(h, Delivered(h, lv, "request_logger", LevelNo("INFO")))
       IN /\ loggerLevel' = lv
          /\ handlers' = h
          /\ rid' = [rid EXCEPT ![r] = Some(id)]
          /\ ctxReq' = [ctxReq EXCEPT ![r] = Some(id)]
          /\ ctxDown' = [ctxDown EXCEPT ![r] = Some(id)]
          /\ trace' = [trace EXCEPT ![r] = EnterEvents(r, id, files)]
    /\ rhdr' = [rhdr EXCEPT ![r] = hdr]
    /\ uuidCount' = uuidCount + 1
    /\ rpc' = [rpc EXCEPT ![r] = "awaiting"]
    /\ UNCHANGED <<dbVars, LOGGING_LEVEL, regVars, facadeRec, lastCall>>

\* The downstream handler logs through service_logger while the middleware awaits it.
DownstreamLog(r, op) ==
    /\ rpc[r] = "awaiting"
    /\ LET rec == FacadeCall("service", op, NoFields, None, ctxDown[r])
       IN /\ rec.emitted
          /\ facadeRec' = [facadeRec EXCEPT ![r] = Some(rec.fields)]
    /\ UNCHANGED <<dbVars, logVars, regVars, rpc, rhdr, rid, ctxReq, ctxDown, uuidCount,
                   trace, lastCall>>

\* The downstream handler returns a response.
DownstreamReturn(r) ==
    /\ rpc[r] = "awaiting"
    /\ rpc' = [rpc EXCEPT ![r] = "returned"]
    /\ trace' = [trace EXCEPT ![r] = Append(@, Event(r, "return", None, <<>>))]
    /\ UNCHANGED <<dbVars, logVars, regVars, rhdr, rid, ctxReq, ctxDown, uuidCount,
                   facadeRec, lastCall>>

\* The downstream handler raises.
DownstreamRaise(r) ==
    /\ rpc[r] = "awaiting"
    /\ rpc' = [rpc EXCEPT ![r] = "failed"]
    /\ trace' = [trace EXCEPT ![r] = Append(@, Event(r, "raise", None, <<>>))]
    /\ UNCHANGED <<dbVars, logVars, regVars, rhdr, rid, ctxReq, ctxDown, uuidCount,
                   facadeRec, lastCall>>

\* The request is cancelled while the middleware awaits the downstream handler.
DownstreamCancel(r) ==
    /\ rpc[r] = "awaiting"
    /\ rpc' = [rpc EXCEPT ![r] = "cancelling"]
    /\ trace' = [trace EXCEPT ![r] = Append(@, Event(r, "cancel", None, <<>>))]
    /\ UNCHANGED <<dbVars, logVars, regVars, rhdr, rid, ctxReq, ctxDown, uuidCount,
                   facadeRec, lastCall>>

\* The middleware resumes with the response: the "Response sent" line and
\* `return response` (lines 54-62).
Resume(r) ==
    /\ rpc[r] = "returned"
    /\ trace' = [trace EXCEPT ![r] =
                    Append(@, Event(r, "sent", SentRequestId(r),
                                    FilesOf(handlers,
                                            Delivered(handlers, loggerLevel,
                                                      "request_logger",
                                                      LevelNo("INFO")))))]
    /\ rpc' = [rpc EXCEPT ![r] = "done"]
    /\ UNCHANGED <<dbVars, logVars, regVars, rhdr, rid, ctxReq, ctxDown, uuidCount,
                   facadeRec, lastCall>>

ResumeFailureLogsSent(r) ==
    /\ rpc[r] \in {"failed", "cancelling"}
    /\ trace' = [trace EXCEPT ![r] = Append(@, Event(r, "sent", SentRequestId(r), <<>>))]
    /\ rpc' = [rpc EXCEPT ![r] = IF rpc[r] = "failed" THEN "raised" ELSE "cancelled"]
    /\ UNCHANGED <<dbVars, logVars, regVars, rhdr, rid, ctxReq, ctxDown, uuidCount,
                   facadeRec, lastCall>>

\* The middleware resumes with the failure thrown at line 52: nothing catches it, so
\* it leaves request_logger at once and reaches the caller.
ResumeFailure(r) ==
    /\ rpc[r] \in {"failed", "cancelling"}
    /\ rpc' = [rpc EXCEPT ![r] = IF rpc[r] = "failed" THEN "raised" ELSE "cancelled"]
    /\ UNCHANGED <<dbVars, logVars, regVars, rhdr, rid, ctxReq, ctxDown, uuidCount,
                   trace, facadeRec, lastCall>>

\* A facade call made outside any request (start-up code, a background job): the
\* context it runs in is the server's, where request_id_var was never set.
OutsideLog(op) ==
    /\ lastCall = NoCall
    /\ lastCall' = FacadeCall("service", op, NoFields, None, None)
    /\ UNCHANGED <<dbVars, logVars, regVars, reqVars>>

(***************************************************************************)
(* Specifications                                                          *)
(***************************************************************************)

Init == DbInit /\ LogInit /\ RegInit /\ ReqInit /\ lastCall = NoCall

DbNext == init_db \/ close_db \/ db_status

RegNext ==
    \/ \E c \in Callers, name \in Names : Call(c, name)
    \/ \E c \in Callers : Acquire(c)
    \/ \E c \in Callers : Check(c)
    \/ \E c \in Callers : New(c)
    \/ \E c \in Callers : GetLogger(c)
    \/ \E c \in Callers : HasHandlersTest(c)
    \/ \E c \in Callers : AddFile(c)
    \/ \E c \in Callers : AddStream(c)
    \/ \E c \in Callers : Store(c)
    \/ \E c \in Callers : Return(c)
    \/ MiddlewareTest
    \/ MiddlewareAdd

FacadeNext ==
    \/ \E name \in Names : AsyncLoggerCall(name)
    \/ MiddlewareSetup
    \/ \E name \in Names, op \in Ops, kw \in KwargChoices, ctx \in ContextValues :
          \E exc \in (IF OpExcInfo(op) THEN ActiveExceptions ELSE {None}) :
              Facade(name, op, kw, exc, ctx)
    \/ FacadeReturn

ReqNext ==
    \/ \E r \in Requests, hdr \in HeaderValues : Enter(r, hdr)
    \/ \E r \in Requests : DownstreamReturn(r)
    \/ \E r \in Requests : DownstreamRaise(r)
    \/ \E r \in Requests : DownstreamCancel(r)
    \/ \E r \in Requests : Resume(r)
    \/ \E r \in Requests : ResumeFailure(r)
    \/ AsyncLoggerCall("request_logger")

CtxNext ==
    \/ ReqNext
    \/ \E r \in Requests, op \in {"info", "error"} : DownstreamLog(r, op)
    \/ \E op \in {"info", "error"} : OutsideLog(op)
    \/ FacadeReturn

Next == DbNext \/ RegNext \/ FacadeNext \/ CtxNext

\* The database lifecycle.
SpecDb == Init /\ [][DbNext]_vars

\* Threads constructing AsyncLogger objects while the event loop runs the middleware.
SpecRegistry == Init /\ [][RegNext]_vars

\* Facade calls on the loggers of the registry.
SpecFacade == Init /\ [][FacadeNext]_vars

\* Requests interleaved on the event loop.
SpecRequest == Init /\ [][ReqNext]_vars

\* Requests whose downstream handlers log through the facade, and facade calls made
\* outside any request.
SpecContext == Init /\ [][CtxNext]_vars

\* The whole program: every component running together. The properties below are
\* checked on the component specifications, whose behaviours are behaviours of Spec.
Spec == Init /\ [][Next]_vars

(***************************************************************************)
(* Properties                                                              *)
(***************************************************************************)

IdsOf(r, ev) == {trace[r][i].id : i \in {j \in 1..Len(trace[r]) : trace[r][j].ev = ev}}

\* The positions of the events of kind ev in the history of request r.
At(r, ev) == {i \in 1..Len(trace[r]) : trace[r][i].ev = ev}

\* Whether a record logged at INFO on "request_logger" gets past the logger.
InfoEnabled == LevelNo("INFO") >= EffectiveLevel(loggerLevel, "request_logger")

\* C5: for requests interleaved at the await of call_next, the request_id of a
\* request's "Received request" record is the one of its "Response sent" record; it
\* is the X-Request-ID header when the request carries one and a generated token
\* otherwise; and two requests have the same id only if both carried the header with
\* the same value.
C5_RequestIds ==
    \A r \in Requests : rpc[r] # "idle" =>
        /\ Cardinality(IdsOf(r, "received")) = 1
        /\ IdsOf(r, "sent") \subseteq IdsOf(r, "received")
        /\ rhdr[r] # None => IdsOf(r, "received") = {rhdr[r]}
        /\ rhdr[r] = None =>
              IdsOf(r, "received") \subseteq {Some(UuidStr(n)) : n \in 1..uuidCount}
        /\ \A q \in Requests \ {r} :
              IdsOf(q, "received") \cap IdsOf(r, "received") # {} =>
                  (rhdr[r] # None /\ rhdr[q] = rhdr[r])

\* Request 1, without a header, still awaits its handler while request 2, which
\* arrived later with a header, has written both its lines.
C5_Witness ==
    /\ MaxRequests >= 2
    /\ rpc[1] = "awaiting" /\ rhdr[1] = None
    /\ rpc[2] = "done" /\ rhdr[2] = Some("abc-123")
    /\ IdsOf(2, "sent") = {Some("abc-123")}
    /\ \A i \in At(2, "sent") : trace[2][i].files # <<>>
    /\ IdsOf(1, "received") = {Some("uuid-1")}

\* C8: within one request the "Received request" line comes before call_next is
\* invoked and the "Response sent" line after call_next has returned; the lines of
\* different requests are not ordered (see the witness).
C8_LineOrder ==
    \A r \in Requests :
        /\ rpc[r] # "idle" => (At(r, "received") # {} /\ At(r, "call") # {})
        /\ rpc[r] = "done" => At(r, "sent") # {}
        /\ \A i \in At(r, "received"), j \in At(r, "call") : i < j
        /\ \A i \in At(r, "sent") :
              /\ \E j \in At(r, "return") : j < i
              /\ \A j \in At(r, "call") \cup At(r, "return") : j < i

\* Request 1 arrived first and its line was written, yet request 2 has already
\* written its "Response sent" line while request 1 has not returned.
C8_Witness ==
    /\ MaxRequests >= 2
    /\ rpc[1] = "awaiting" /\ rpc[2] = "done"
    /\ InfoEnabled
    /\ At(1, "sent") = {}
    /\ \A r \in {1, 2} : \A i \in At(r, "received") \cup At(r, "sent") :
          trace[r][i].files = <<<<"request_logs", "request">>>>

\* C9: when the downstream handler raises or is cancelled, the "Received request"
\* line has been written, no "Response sent" line is ever written for the request,
\* the handler is not called again, and the request ends with the failure, never
\* with a response.
C9_FailurePropagates ==
    \A r \in Requests :
        /\ rpc[r] \in {"failed", "raised"} =>
              /\ Len(trace[r]) = 3
              /\ trace[r][1].ev = "received" /\ trace[r][2].ev = "call"
              /\ trace[r][3].ev = "raise"
        /\ rpc[r] \in {"cancelling", "cancelled"} =>
              /\ Len(trace[r]) = 3
              /\ trace[r][1].ev = "received" /\ trace[r][2].ev = "call"
              /\ trace[r][3].ev = "cancel"
        /\ (At(r, "raise") \cup At(r, "cancel") # {}) =>
              (At(r, "sent") = {} /\ rpc[r] \notin {"done", "returned", "awaiting"})

\* One request has ended with the exception its handler raised and another with its
\* cancellation, each after its "Received request" line was written.
C9_Witness ==
    /\ MaxRequests >= 2
    /\ rpc[1] = "raised" /\ rpc[2] = "cancelled"
    /\ trace[1][1].files # <<>> /\ trace[2][1].files # <<>>

\* C10 as claimed: once a request has entered the middleware, the "request_logger"
\* logger carries exactly one rotating file sink and every record the middleware
\* emits is written to request_logs/request.log exactly once.
C10_OneRequestSink ==
    (\E r \in Requests : rpc[r] # "idle") =>
        /\ CountCls(handlers, "request_logger", "RotatingFileHandler") = 1
        /\ \A r \in Requests : \A i \in At(r, "received") \cup At(r, "sent") :
              InfoEnabled =>
                  Cardinality({k \in 1..Len(trace[r][i].files) :
                                 trace[r][i].files[k] = <<"request_logs", "request">>}) = 1

\* C7 as claimed: a facade record emitted by the handler of a request carries that
\* request's request_id, the context the handler reads holds that id and no other
\* request's, and a facade record emitted outside any request has no request_id.
C7_OwnRequestId ==
    /\ \A r \in Requests :
          /\ rpc[r] # "idle" => (ctxReq[r] = rid[r] /\ ctxDown[r] = rid[r])
          /\ facadeRec[r] # None =>
                /\ "request_id" \in DOMAIN facadeRec[r][1]
                /\ Some(facadeRec[r][1]["request_id"]) = rid[r]
    /\ "request_id" \notin DOMAIN lastCall.fields

\* C2 as claimed: the record an exception() call emits carries non-empty
\* "exception_type", "exception" and "traceback" when an exception is being handled,
\* and lacks them, or has them empty, when none is.
C2_ExceptionFields ==
    (lastCall.op = "exception" /\ lastCall.emitted) =>
        IF lastCall.exc # None
        THEN \A k \in {"exception_type", "exception", "traceback"} :
                k \in DOMAIN lastCall.fields /\ lastCall.fields[k] # ""
        ELSE \A k \in {"exception_type", "exception", "traceback"} :
                k \notin DOMAIN lastCall.fields \/ lastCall.fields[k] = ""

\* The number of times handler position i of logger n occurs in a delivery.
TimesDelivered(d, n, i) == Cardinality({k \in 1..Len(d) : d[k] = <<n, i>>})

\* C3 as claimed: a facade call below the configured threshold reaches no sink; one at
\* or above it reaches each sink attached to its logger exactly once.
C3_Threshold ==
    lastCall.op # "none" =>
        IF LevelNo(OpLevel(lastCall.op)) < LevelNo(LOGGING_LEVEL)
        THEN lastCall.delivered = <<>>
        ELSE \A i \in 1..Len(handlers[lastCall.logger]) :
                TimesDelivered(lastCall.delivered, lastCall.logger, i) = 1

\* C1 as claimed: when every caller of AsyncLogger(x) has returned, one instance was
\* built for x, each caller got it, and the logger x carries exactly one rotating
\* file sink and exactly one console sink.
C1_OneInstanceOneSinkPair ==
    \A x \in Names :
        LET cs == {c \in Callers : cname[c] = x /\ cpc[c] # "idle"} IN
        (cs # {} /\ \A c \in cs : cpc[c] = "done") =>
            /\ constructed[x] = 1
            /\ \A c \in cs : cret[c] = instances[x] /\ cret[c] # 0
            /\ CountCls(handlers, x, "RotatingFileHandler") = 1
            /\ CountCls(handlers, x, "StreamHandler") = 1

\* C6 as claimed: once AsyncLogger(name) has been called, the logger `name` carries
\* its own rotating file sink on service_logs/<name>.log and a console sink, one of
\* each, whatever ran before, and keeps exactly those afterwards.
C6_FirstCallAttachesSinks ==
    \A x \in Names : instances[x] # 0 =>
        /\ Cardinality({i \in 1..Len(handlers[x]) :
                          handlers[x][i] = ServiceFileHandler(x)}) = 1
        /\ Cardinality({i \in 1..Len(handlers[x]) : handlers[x][i] = ConsoleHandler}) = 1

====
